---- MODULE Spec2Model ----
(***************************************************************************)
(* Model of the lsp-poc bridge: the workspace-specific endpoint namer      *)
(* (generatePipeName in the extension and in the standalone client), the   *)
(* standalone client's Content-Length framer and request bookkeeping       *)
(* (SimpleJsonRpcClient), and the request handlers of the pipe and HTTP    *)
(* variants of the extension.                                              *)
(***************************************************************************)
EXTENDS Integers, Sequences, FiniteSets, TLC

(***************************************************************************)
(* Bounds of the model.                                                    *)
(***************************************************************************)
MaxPathLen == 2

MaxItems == 2

MaxRequests == 2

MaxInstances == 2

MaxConnections == 2

None == "undefined"

(***************************************************************************)
(* STATE                                                                   *)
(***************************************************************************)
\* Endpoint namer.
VARIABLES
    platform,          \* process.platform
    workspaceFolders,  \* vscode.workspace.workspaceFolders, as a list of fsPath
    cwd,               \* process.cwd() of the standalone client
    pipeName,          \* module variable pipeName of the extension
    clientPipeName,    \* const pipeName of testConnection
    serverReturned,    \* every address the extension's generatePipeName returned
    clientReturned     \* every address the client's generatePipeName returned

namerVars == <<platform, workspaceFolders, cwd, pipeName, clientPipeName,
               serverReturned, clientReturned>>

\* The standalone client (SimpleJsonRpcClient) and the byte stream it reads.
VARIABLES
    stream,           \* what the peer wrote: the list of items (frames, junk)
    wire,             \* bytes written by the peer and not yet delivered
    buffer,           \* this.buffer: a string, as a sequence of characters
    messageId,        \* this.messageId
    pendingRequests,  \* this.pendingRequests: the ids it has an entry for
    settled,          \* promises settled so far, in order: [id, how, value]
    decoded,          \* every value JSON.parse returned, in order
    extracted         \* every body cut out of the buffer: [contentLength, messageStr]

framerVars == <<stream, wire, buffer, messageId, pendingRequests,
                settled, decoded, extracted>>

\* The servers (pipe and HTTP variants of the extension) and the engine.
VARIABLES
    variant,    \* which extension runs: "pipe", "pipeEarly" or "http"
    world,      \* what the engine's commands answer: [ws, docs, refs]
    budget,     \* number of requests the run issues at most
    listening,  \* the server (pipeServer / server) is listening
    requests,   \* every request issued so far: [id, method, param]
    c2s,        \* requests written by the client and not yet read by the server
    s2c,        \* responses written by the server and not yet read by the client
    handlers,   \* the handler invocations, by request
    starts,     \* the requests in the order their handlers were invoked
    timers,     \* the ids whose setTimeout callback has not run yet
    responses   \* every response produced so far, in order: [key, msg]

serverVars == <<variant, world, budget, listening, requests, c2s, s2c, handlers,
                starts, timers, responses>>

\* Extension hosts on one machine, each activating the extension once.
VARIABLES
    instances,      \* by host: what activate() made of its server
    inUse,          \* addresses (pipe names, ports) bound right now: [address, holder]
    notifications   \* what vscode.window showed the operator: [instance, level]

hostVars == <<instances, inUse, notifications>>

\* The connections of one pipe server.
VARIABLES
    conns,     \* by socket: [state, registered, disposed, afterClose]
    jobs,      \* the handler invocations, in order: [conn, id, h, orphaned]
    written,   \* by socket: the responses written to it: [job, msg]
    dropped,   \* the jobs whose response went to no socket
    crashed    \* an error escaped to the extension host process

connVars == <<conns, jobs, written, dropped, crashed>>

vars == <<namerVars, framerVars, serverVars, hostVars, connVars>>

(***************************************************************************)
(* ENDPOINT NAMER                                                          *)
(***************************************************************************)
Platforms == {"win32", "linux", "darwin"}

\* Characters a path is made of: one letter in both cases and a separator.
PathChars == {"A", "a", "/"}

Paths == UNION {[1..n -> PathChars] : n \in 1..MaxPathLen}

\* String.prototype.toLowerCase on one character.
LowerChar(c) ==
    CASE c = "A" -> "a" [] c = "C" -> "c" [] c = "L" -> "l" [] OTHER -> c

toLowerCase(s) == [i \in 1..Len(s) |-> LowerChar(s[i])]

\* Code unit of a character, the input of the digest.
CharCode(c) == CASE c = "/" -> 47 [] c = "A" -> 65 [] c = "a" -> 97

\* Each half of the 8-hex-digit digest prefix: 4 hex digits.
HalfSpace == 16 ^ 4

RECURSIVE CodeSum(_)
CodeSum(s) ==
    IF s = <<>> THEN 0
    ELSE (CodeSum(SubSeq(s, 1, Len(s) - 1)) + CharCode(s[Len(s)])) % HalfSpace

\* crypto.createHash('md5').update(s).digest('hex').substring(0, 8): 32 bits,
\* as <<high half, low half>>.  MD5 is stood for by a deterministic checksum:
\* a function of the string alone, of the same width, and not injective (the
\* high half is the length, the low half the sum of the character codes, so
\* two strings with the same characters in another order collide).
md5Sum(s) == <<(Len(s) * 251) % HalfSpace, CodeSum(s)>>

HexDigits == <<"0", "1", "2", "3", "4", "5", "6", "7",
               "8", "9", "a", "b", "c", "d", "e", "f">>

\* The 4 hex digits of a number below 16^4, most significant first.
Hex4(n) == [i \in 1..4 |-> HexDigits[((n \div (16 ^ (4 - i))) % 16) + 1]]

\* The 8 hex digits of a digest prefix.
Hex8(h) == Hex4(h[1]) \o Hex4(h[2])

md5Hex8(s) == Hex8(md5Sum(s))

\* The template literals `\\\\.\\pipe\\forge-lsp-${hash}` and
\* `/tmp/forge-lsp-${hash}.sock`: prefix, the 8 digits, suffix.
PipeAddress(plat, hash) ==
    IF plat = "win32"
    THEN <<"\\\\.\\pipe\\forge-lsp-", hash, "">>
    ELSE <<"/tmp/forge-lsp-", hash, ".sock">>

\* crypto.randomBytes(4).toString('hex'): any 8 hex digits; a few samples.
RandomHex8 == {Hex8(h) : h \in {<<0, 0>>, <<251, 97>>, <<HalfSpace - 1, HalfSpace - 1>>}}

\* The normalisation both generatePipeName functions apply before hashing.
NormalizeLowerOnAll(plat, path) == toLowerCase(path)

NormalizePath(plat, path) == IF plat = "win32" THEN toLowerCase(path) ELSE path

\* generatePipeName of the extension (pipe variant): the set of addresses a
\* call can return.  One address when a workspace is open, any random one
\* otherwise.
\* A namer that hashes the platform instead of the workspace path.
generatePipeNameShared(plat, folders) == {PipeAddress(plat, md5Hex8(<<"a">>))}

generatePipeName(plat, folders) ==
    IF Len(folders) > 0
    THEN {PipeAddress(plat, md5Hex8(NormalizePath(plat, folders[1])))}
    ELSE {PipeAddress(plat, r) : r \in RandomHex8}

\* A client that hashes the path as given, without the win32 lower-casing.
clientPipeNameNoLower(plat, dir) == PipeAddress(plat, md5Hex8(dir))

\* generatePipeName of the standalone client.
generatePipeName_client(plat, dir) ==
    LET workspacePath == IF plat = "win32" THEN toLowerCase(dir) ELSE dir
    IN  PipeAddress(plat, md5Hex8(workspacePath))

NamerInit ==
    /\ platform \in Platforms
    /\ workspaceFolders \in {<<>>} \cup {<<p>> : p \in Paths}
    /\ cwd \in Paths
    /\ pipeName = None
    /\ clientPipeName = None
    /\ serverReturned = {}
    /\ clientReturned = {}

\* startNamedPipeServer: pipeName = generatePipeName().
ServerGeneratePipeName ==
    /\ \E a \in generatePipeName(platform, workspaceFolders) :
          /\ pipeName' = a
          /\ serverReturned' = serverReturned \cup {a}
    /\ UNCHANGED <<platform, workspaceFolders, cwd, clientPipeName, clientReturned>>
    /\ UNCHANGED framerVars
    /\ UNCHANGED serverVars
    /\ UNCHANGED hostVars
    /\ UNCHANGED connVars

\* testConnection: const pipeName = generatePipeName().
ClientGeneratePipeName ==
    /\ clientPipeName' = generatePipeName_client(platform, cwd)
    /\ clientReturned' = clientReturned \cup {clientPipeName'}
    /\ UNCHANGED <<platform, workspaceFolders, cwd, pipeName, serverReturned>>
    /\ UNCHANGED framerVars
    /\ UNCHANGED serverVars
    /\ UNCHANGED hostVars
    /\ UNCHANGED connVars

NamerNext == ServerGeneratePipeName \/ ClientGeneratePipeName

NamerIdle ==
    /\ platform = "linux"
    /\ workspaceFolders = <<>>
    /\ cwd = <<"/">>
    /\ pipeName = None
    /\ clientPipeName = None
    /\ serverReturned = {}
    /\ clientReturned = {}

(***************************************************************************)
(* MESSAGE FRAMER OF THE STANDALONE CLIENT (SimpleJsonRpcClient)           *)
(***************************************************************************)
\* Characters are one-character strings; E9 stands for U+00E9 (two bytes in
\* UTF-8) and FFFD for the replacement character U+FFFD.
TextChars == {"a", "E9"}

Digits == <<"0", "1", "2", "3", "4", "5", "6", "7", "8", "9">>

DigitChars == {Digits[i] : i \in 1..10}

DigitValue(c) == CHOOSE v \in 0..9 : Digits[v + 1] = c

\* Template-literal formatting of a non-negative number: its decimal digits.
RECURSIVE ToDecimal(_)
ToDecimal(n) ==
    IF n < 10 THEN <<Digits[n + 1]>>
    ELSE ToDecimal(n \div 10) \o <<Digits[(n % 10) + 1]>>

\* parseInt of a non-empty run of decimal digits.
RECURSIVE parseInt(_)
parseInt(ds) ==
    IF Len(ds) = 0 THEN 0
    ELSE parseInt(SubSeq(ds, 1, Len(ds) - 1)) * 10 + DigitValue(ds[Len(ds)])

\* UTF-8 encoding of one character, as a sequence of bytes.  An ASCII
\* character is the byte of the same name.
Utf8Char(c) ==
    CASE c = "E9" -> <<"xC3", "xA9">>
      [] c = "FFFD" -> <<"xEF", "xBF", "xBD">>
      [] OTHER -> <<c>>

RECURSIVE Utf8(_)
Utf8(str) ==
    IF str = <<>> THEN <<>> ELSE Utf8Char(Head(str)) \o Utf8(Tail(str))

\* A count of characters where the code calls for a count of bytes.
CharLength(str) == Len(str)

\* Buffer.byteLength(content): the length of the UTF-8 encoding.
byteLength(str) == Len(Utf8(str))

\* Buffer.prototype.toString() of one chunk: UTF-8 decoding in which every
\* byte that is not part of a complete sequence inside the chunk becomes
\* U+FFFD.
RECURSIVE toString(_)
toString(bytes) ==
    IF bytes = <<>> THEN <<>>
    ELSE IF Len(bytes) >= 2 /\ bytes[1] = "xC3" /\ bytes[2] = "xA9"
         THEN <<"E9">> \o toString(SubSeq(bytes, 3, Len(bytes)))
    ELSE IF bytes[1] \in {"xC3", "xA9", "xEF", "xBF", "xBD"}
         THEN <<"FFFD">> \o toString(Tail(bytes))
    ELSE <<bytes[1]>> \o toString(Tail(bytes))

\* String.prototype.substring(a, b) and substring(a), 0-based, end exclusive.
substring(str, a, b) == SubSeq(str, a + 1, IF b > Len(str) THEN Len(str) ELSE b)

substringFrom(str, a) == SubSeq(str, a + 1, Len(str))

Terminator == <<"\r", "\n", "\r", "\n">>

\* this.buffer.indexOf('\r\n\r\n'): the first 0-based index, or -1.
indexOfTerminator(str) ==
    LET hits == {i \in 0..(Len(str) - 4) : SubSeq(str, i + 1, i + 4) = Terminator}
    IN  IF hits = {} THEN -1 ELSE CHOOSE i \in hits : \A j \in hits : i <= j

ContentLengthLabel ==
    <<"C", "o", "n", "t", "e", "n", "t", "-", "L", "e", "n", "g", "t", "h", ":", " ">>

\* The length of the run of digits that starts at 1-based position p.
RECURSIVE DigitRun(_, _)
DigitRun(str, p) ==
    IF p <= Len(str) /\ str[p] \in DigitChars THEN 1 + DigitRun(str, p + 1) ELSE 0

\* headers.match(/Content-Length: (\d+)/i): the digits captured by the first
\* match, or <<>> when there is no match.
matchContentLength(headers) ==
    LET n == Len(ContentLengthLabel)
        hits == {i \in 1..(Len(headers) - n) :
                    /\ toLowerCase(SubSeq(headers, i, i + n - 1)) = toLowerCase(ContentLengthLabel)
                    /\ headers[i + n] \in DigitChars}
    IN  IF hits = {} THEN <<>>
        ELSE LET i == CHOOSE h \in hits : \A j \in hits : h <= j
             IN  SubSeq(headers, i + n, i + n + DigitRun(headers, i + n) - 1)

\* A JSON-RPC message: its id, which member it carries besides the id
\* ("m" a method with params: a request; "r" a result; "e" an error) and the
\* string that member holds.
KindChars == {"m", "r", "e"}

Message(id, kind, text) == [id |-> id, kind |-> kind, text |-> text]

\* JSON.stringify(message).  The JSON text is reduced to what the framer and
\* the client read: the braces, the id (one digit), the member tag and the
\* characters of the string, which JSON.stringify leaves unescaped.
JSONstringify(m) == <<"{", Digits[m.id + 1], m.kind>> \o m.text \o <<"}">>

\* Whether JSON.parse(str) returns: the text is one complete JSON value.
\* Otherwise it throws a SyntaxError (anything before, after or missing).
isJSON(str) ==
    /\ Len(str) >= 4
    /\ str[1] = "{" /\ str[Len(str)] = "}"
    /\ str[2] \in DigitChars
    /\ str[3] \in KindChars
    /\ \A i \in 4..(Len(str) - 1) : str[i] \in TextChars \cup {"FFFD"}

\* JSON.parse(messageStr) when it returns.
JSONparse(str) == Message(DigitValue(str[2]), str[3], SubSeq(str, 4, Len(str) - 1))

\* An encoder that announces the number of characters of the body.
encodeFrameCharLength(m) ==
    LET content == JSONstringify(m)
    IN  Utf8(ContentLengthLabel \o ToDecimal(CharLength(content)) \o Terminator \o content)

\* sendRequest, lines 76-78: the bytes socket.write(header + content) puts
\* on the stream.
encodeFrame(m) ==
    LET content == JSONstringify(m)
        header == ContentLengthLabel \o ToDecimal(byteLength(content)) \o Terminator
    IN  Utf8(header \o content)

\* A client that settles its oldest pending request with whatever response
\* arrives.
handleMessageOldest(message, pending, done) ==
    IF pending # {}
    THEN LET id == CHOOSE i \in pending : \A j \in pending : i <= j
         IN  <<pending \ {id},
               Append(done, [id |-> id,
                             how |-> IF message.kind = "e" THEN "reject" ELSE "resolve",
                             value |-> message.text])>>
    ELSE <<pending, done>>

\* A client that settles the request a response names but keeps tracking
\* its id.
handleMessageKeepPending(message, pending, done) ==
    IF message.id # 0 /\ message.id \in pending
    THEN <<pending,
           Append(done, [id |-> message.id,
                         how |-> IF message.kind = "e" THEN "reject" ELSE "resolve",
                         value |-> message.text])>>
    ELSE <<pending, done>>

\* What the client does with one parsed message (processBuffer, lines 50-59):
\* <<pendingRequests, settled>> afterwards.
handleMessage(message, pending, done) ==
    IF message.id # 0 /\ message.id \in pending
    THEN <<pending \ {message.id},
           Append(done, IF message.kind = "e"
                        THEN [id |-> message.id, how |-> "reject", value |-> message.text]
                        ELSE IF message.kind = "r"
                        THEN [id |-> message.id, how |-> "resolve", value |-> message.text]
                        ELSE [id |-> message.id, how |-> "resolve", value |-> None])>>
    ELSE <<pending, done>>

\* A processBuffer whose malformed-header branch drops the whole buffer.
RECURSIVE processBufferDropAll(_)
processBufferDropAll(st) ==
    LET buf == st.buffer
        headerEnd == indexOfTerminator(buf)
    IN  IF headerEnd = -1 THEN st
        ELSE
        LET headers == substring(buf, 0, headerEnd)
            contentLengthMatch == matchContentLength(headers)
        IN  IF contentLengthMatch = <<>>
            THEN processBufferDropAll([st EXCEPT !.buffer = <<>>])
            ELSE
            LET contentLength == parseInt(contentLengthMatch)
                messageStart == headerEnd + 4
                messageEnd == messageStart + contentLength
            IN  IF Len(buf) < messageEnd THEN st
                ELSE
                LET messageStr == substring(buf, messageStart, messageEnd)
                    throws == ~isJSON(messageStr)
                    message == JSONparse(messageStr)
                    after == IF throws
                             THEN <<st.pending, st.settled>>
                             ELSE handleMessage(message, st.pending, st.settled)
                IN  processBufferDropAll(
                        [buffer |-> substringFrom(buf, messageEnd),
                         pending |-> after[1],
                         settled |-> after[2],
                         decoded |-> IF throws THEN st.decoded
                                     ELSE Append(st.decoded, message),
                         extracted |-> Append(st.extracted,
                             [contentLength |-> contentLength, messageStr |-> messageStr])])

\* processBuffer: the loop of lines 27-63, on the client's state
\* [buffer, pending, settled] and the record of what it parsed and cut out.
RECURSIVE processBuffer(_)
processBuffer(st) ==
    LET buf == st.buffer
        headerEnd == indexOfTerminator(buf)
    IN  IF headerEnd = -1 THEN st
        ELSE
        LET headers == substring(buf, 0, headerEnd)
            contentLengthMatch == matchContentLength(headers)
        IN  IF contentLengthMatch = <<>>
            THEN processBuffer([st EXCEPT !.buffer = substringFrom(buf, headerEnd + 4)])
            ELSE
            LET contentLength == parseInt(contentLengthMatch)
                messageStart == headerEnd + 4
                messageEnd == messageStart + contentLength
            IN  IF Len(buf) < messageEnd THEN st
                ELSE
                LET messageStr == substring(buf, messageStart, messageEnd)
                    throws == ~isJSON(messageStr)
                    message == JSONparse(messageStr)
                    after == IF throws
                             THEN <<st.pending, st.settled>>
                             ELSE handleMessage(message, st.pending, st.settled)
                IN  processBuffer(
                        [buffer |-> substringFrom(buf, messageEnd),
                         pending |-> after[1],
                         settled |-> after[2],
                         decoded |-> IF throws THEN st.decoded
                                     ELSE Append(st.decoded, message),
                         extracted |-> Append(st.extracted,
                             [contentLength |-> contentLength, messageStr |-> messageStr])])

\* Bodies a frame of the stream carries: ASCII only, one two-byte character,
\* and a longer mixed one whose length takes two digits.
FrameTexts == {<<"a">>, <<"E9">>, <<"E9", "a", "a", "a", "a", "a">>}

\* Header blocks without a Content-Length field, terminator included.
JunkBlocks == {<<"X">> \o Terminator, Terminator}

\* An item of the stream: a frame (a response: result or error) or a
\* malformed header block.
StreamItems ==
    {[junk |-> FALSE, kind |-> k, text |-> t] : k \in {"r", "e"}, t \in FrameTexts}
    \cup {[junk |-> TRUE, block |-> b] : b \in JunkBlocks}

\* Number of frames among the first n items: the id of the n-th item when it
\* is a frame (the peer answers requests 1, 2, ... in order).
FramesBefore(items, n) == Cardinality({i \in 1..n : ~items[i].junk})

ItemMessage(items, i) == Message(FramesBefore(items, i), items[i].kind, items[i].text)

RECURSIVE StreamBytes(_, _)
StreamBytes(items, i) ==
    IF i > Len(items) THEN <<>>
    ELSE (IF items[i].junk THEN Utf8(items[i].block)
          ELSE encodeFrame(ItemMessage(items, i)))
         \o StreamBytes(items, i + 1)

FramerInit ==
    /\ stream \in UNION {[1..n -> StreamItems] : n \in 1..MaxItems}
    /\ wire = StreamBytes(stream, 1)
    /\ buffer = <<>>
    /\ messageId = FramesBefore(stream, Len(stream))
    /\ pendingRequests = 1..messageId
    /\ settled = <<>>
    /\ decoded = <<>>
    /\ extracted = <<>>

FramerIdle ==
    /\ stream = <<>>
    /\ wire = <<>>
    /\ buffer = <<>>
    /\ messageId = 0
    /\ pendingRequests = {}
    /\ settled = <<>>
    /\ decoded = <<>>
    /\ extracted = <<>>

\* socket.on('data'): the next k bytes of the stream arrive as one chunk;
\* the handler appends data.toString() to the buffer and runs processBuffer.
OnData(k) ==
    /\ k \in 1..Len(wire)
    /\ LET data == SubSeq(wire, 1, k)
           st == processBuffer([buffer |-> buffer \o toString(data),
                                pending |-> pendingRequests,
                                settled |-> settled,
                                decoded |-> decoded,
                                extracted |-> extracted])
       IN  /\ buffer' = st.buffer
           /\ pendingRequests' = st.pending
           /\ settled' = st.settled
           /\ decoded' = st.decoded
           /\ extracted' = st.extracted
    /\ wire' = SubSeq(wire, k + 1, Len(wire))
    /\ UNCHANGED <<stream, messageId>>
    /\ UNCHANGED namerVars
    /\ UNCHANGED hostVars
    /\ UNCHANGED connVars
    /\ UNCHANGED serverVars

FramerNext == \E k \in 1..Len(wire) : OnData(k)

(***************************************************************************)
(* THE ENGINE: what the vscode commands answer                             *)
(***************************************************************************)
Pos(l, c) == [line |-> l, character |-> c]

\* An optional list (T[] | undefined): the engine's commands may answer
\* undefined instead of a list.
Undefined == [defined |-> FALSE, items |-> <<>>]

List(items) == [defined |-> TRUE, items |-> items]

\* The symbol name looked up, a spelling of it in another case and a longer
\* name that contains it.
NameF == <<"f">>

NameUpperF == <<"F">>

NameFb == <<"f", "b">>

UriA == "file:///a.ts"

UriB == "file:///b.ts"

UriUntitled == "untitled:Untitled-1"

\* vscode.SymbolInformation: name and location (uri, range).
SymbolInformation(name, uri, start, end) ==
    [name |-> name, uri |-> uri, start |-> start, end |-> end]

SymF_A == SymbolInformation(NameF, UriA, Pos(3, 9), Pos(3, 10))

SymF_B == SymbolInformation(NameF, UriB, Pos(7, 2), Pos(7, 3))

SymUpperF_A == SymbolInformation(NameUpperF, UriA, Pos(5, 0), Pos(5, 1))

SymFb_B == SymbolInformation(NameFb, UriB, Pos(1, 4), Pos(1, 6))

\* Answers of vscode.executeWorkspaceSymbolProvider, which matches fuzzily:
\* undefined, nothing, the exact name alone, near misses only, the exact name
\* after a near miss, and two symbols of the exact name.
WorkspaceSymbolAnswers ==
    {Undefined, List(<<>>), List(<<SymF_A>>), List(<<SymUpperF_A, SymFb_B>>),
     List(<<SymFb_B, SymF_A>>), List(<<SymF_B, SymF_A>>)}

\* vscode.DocumentSymbol: name, range start and children.
DocumentSymbol(name, start, children) ==
    [name |-> name, start |-> start, children |-> children]

OutlineNested ==
    List(<<DocumentSymbol(NameFb, Pos(0, 0), <<>>),
           DocumentSymbol(NameUpperF, Pos(2, 0),
               <<DocumentSymbol(NameF, Pos(4, 2), <<>>)>>)>>)

OutlineTop == List(<<DocumentSymbol(NameF, Pos(1, 0), <<>>)>>)

OutlineOther == List(<<DocumentSymbol(NameFb, Pos(0, 0), <<>>)>>)

\* A nested declaration that comes, in pre-order, before a top-level one.
OutlineDeepFirst ==
    List(<<DocumentSymbol(NameUpperF, Pos(2, 0),
               <<DocumentSymbol(NameF, Pos(4, 2), <<>>)>>),
           DocumentSymbol(NameF, Pos(9, 0), <<>>)>>)

\* The text "fb F\nf f": the name occurs as a word at offsets 5 and 7.
TextTwoMatches == <<"f", "b", " ", "F", "\n", "f", " ", "f">>

\* The text "fb F": the name occurs inside a longer word only.
TextNoMatch == <<"f", "b", " ", "F">>

\* vscode.TextDocument with what the engine knows of it: its outline
\* (executeDocumentSymbolProvider) and the positions with hover data
\* (executeHoverProvider).
TextDocument(uri, scheme, inWorkspace, outline, text, hoverAt) ==
    [uri |-> uri, scheme |-> scheme, inWorkspace |-> inWorkspace,
     outline |-> outline, text |-> text, hoverAt |-> hoverAt]

DocOutlineNested == TextDocument(UriA, "file", TRUE, OutlineNested, TextNoMatch, {})

DocOutlineDeepFirst == TextDocument(UriA, "file", TRUE, OutlineDeepFirst, TextNoMatch, {})

DocOutlineTop == TextDocument(UriB, "file", TRUE, OutlineTop, TextTwoMatches, {Pos(1, 0)})

DocUntitled == TextDocument(UriUntitled, "untitled", FALSE, OutlineTop, TextTwoMatches, {Pos(1, 0)})

DocOutside == TextDocument(UriB, "file", FALSE, OutlineTop, TextTwoMatches, {Pos(1, 0)})

DocTextHover == TextDocument(UriA, "file", TRUE, Undefined, TextTwoMatches, {Pos(1, 0)})

DocTextSecondHover == TextDocument(UriA, "file", TRUE, OutlineOther, TextTwoMatches, {Pos(1, 2)})

DocTextNoHover == TextDocument(UriA, "file", TRUE, List(<<>>), TextTwoMatches, {})

\* vscode.workspace.textDocuments: the open documents, in list order.
DocumentLists ==
    {<<>>, <<DocOutlineNested>>, <<DocUntitled, DocTextHover>>,
     <<DocOutside, DocTextNoHover>>, <<DocTextSecondHover, DocOutlineTop>>,
     <<DocOutlineDeepFirst>>, <<DocTextHover, DocOutlineTop>>}

\* vscode.Location: uri and range.
Location(uri, start, end) == [uri |-> uri, start |-> start, end |-> end]

RefDecl == Location(UriA, Pos(3, 9), Pos(3, 10))

RefUse == Location(UriB, Pos(8, 18), Pos(8, 19))

\* Answers of vscode.executeReferenceProvider: undefined, none, and a list
\* with a repeated entry.
ReferenceAnswers == {Undefined, List(<<>>), List(<<RefUse, RefDecl, RefUse>>)}

World(ws, docs, refs) == [ws |-> ws, docs |-> docs, refs |-> refs]

Worlds ==
    {World(ws, docs, refs) : ws \in WorkspaceSymbolAnswers,
                             docs \in DocumentLists, refs \in ReferenceAnswers}

\* The worlds the concurrent runs start from: an exact workspace match, a
\* fallback to the outline of an open document, and nothing to find.
FewWorlds ==
    {World(List(<<SymFb_B, SymF_A>>), <<DocOutlineNested>>, List(<<RefUse, RefDecl, RefUse>>)),
     World(List(<<>>), <<DocTextSecondHover, DocOutlineTop>>, Undefined),
     World(Undefined, <<DocOutside, DocTextNoHover>>, List(<<>>))}

(***************************************************************************)
(* SYMBOL RESOLVER HELPERS (pipe variants)                                 *)
(***************************************************************************)
NotFoundSymbol == [found |-> FALSE]

\* A search of the tree that stops at the top level.
RECURSIVE findSymbolInTreeTopOnly(_, _)
findSymbolInTreeTopOnly(symbols, symbolName) ==
    IF symbols = <<>> THEN NotFoundSymbol
    ELSE IF Head(symbols).name = symbolName
         THEN [found |-> TRUE, symbol |-> Head(symbols)]
    ELSE findSymbolInTreeTopOnly(Tail(symbols), symbolName)

\* findSymbolInTree: depth-first, pre-order, exact name.
RECURSIVE findSymbolInTree(_, _)
findSymbolInTree(symbols, symbolName) ==
    IF symbols = <<>> THEN NotFoundSymbol
    ELSE LET symbol == Head(symbols)
         IN  IF symbol.name = symbolName THEN [found |-> TRUE, symbol |-> symbol]
             ELSE LET found == IF Len(symbol.children) > 0
                               THEN findSymbolInTree(symbol.children, symbolName)
                               ELSE NotFoundSymbol
                  IN  IF found.found THEN found
                      ELSE findSymbolInTree(Tail(symbols), symbolName)

\* \w of a JavaScript regular expression, on the characters of the model.
IsWordChar(c) == c \in {"f", "F", "b"}

\* \b at 0-based offset p of text: exactly one of the characters before and
\* after p is a word character.
WordBoundary(text, p) ==
    LET before == p >= 1 /\ IsWordChar(text[p])
        after == p < Len(text) /\ IsWordChar(text[p + 1])
    IN  before # after

\* escapeRegExp leaves the pattern matching the name literally: the 0-based
\* offsets >= from at which new RegExp(`\\b${escapeRegExp(name)}\\b`) matches.
MatchOffsets(text, name, from) ==
    {i \in from..(Len(text) - Len(name)) :
        /\ SubSeq(text, i + 1, i + Len(name)) = name
        /\ WordBoundary(text, i)
        /\ WordBoundary(text, i + Len(name))}

\* A search that reports the last occurrence instead of the first.
regexExecLast(text, name, lastIndex) ==
    LET hits == MatchOffsets(text, name, lastIndex)
    IN  IF hits = {} THEN -1 ELSE CHOOSE i \in hits : \A j \in hits : j <= i

\* regex.exec(text) searching from lastIndex: the match index, or -1 (null).
regexExec(text, name, lastIndex) ==
    LET hits == MatchOffsets(text, name, lastIndex)
    IN  IF hits = {} THEN -1 ELSE CHOOSE i \in hits : \A j \in hits : i <= j

\* document.positionAt(offset): the line is the number of line breaks before
\* the offset, the character the distance from the last of them.
positionAt(text, offset) ==
    LET breaks == {i \in 1..offset : text[i] = "\n"}
        lineStart == IF breaks = {} THEN 0
                     ELSE CHOOSE i \in breaks : \A j \in breaks : j <= i
    IN  Pos(Cardinality(breaks), offset - lineStart)

(***************************************************************************)
(* REQUEST HANDLERS                                                        *)
(***************************************************************************)
\* `!symbolName`: the field is missing or the empty string.
\* A check that rejects a missing symbolName only, not the empty string.
FalsyMissingOnly(param) == ~param.defined

Falsy(param) == ~param.defined \/ param.items = <<>>

NoLocation ==
    [found |-> FALSE, uri |-> "", position |-> Pos(0, 0), end |-> Pos(0, 0),
     name |-> <<>>, source |-> "none"]

FoundAt(uri, position, end, name, source) ==
    [found |-> TRUE, uri |-> uri, position |-> position, end |-> end,
     name |-> name, source |-> source]

\* A handler invocation: its arguments, where it is suspended (pc), the
\* locals that live across its awaits, the engine commands it has issued,
\* whether an exception was raised in it, and how it ended.
NewHandler(method, param) ==
    [method |-> method, param |-> param, pc |-> "start", doc |-> 0, lastIndex |-> 0,
     position |-> Pos(0, 0), location |-> NoLocation, calls |-> <<>>,
     raised |-> FALSE, outcome |-> [type |-> "none"]]

Awaiting == {"wsSymbols", "docSymbols", "hover", "references"}

\* await vscode.commands.executeCommand(...): the call is issued and the
\* handler is suspended at pc.
Call(h, pc, call) == [h EXCEPT !.pc = pc, !.calls = Append(@, call)]

WorkspaceSymbolCall(query) ==
    [cmd |-> "vscode.executeWorkspaceSymbolProvider", query |-> query]

DocumentSymbolCall(uri) == [cmd |-> "vscode.executeDocumentSymbolProvider", uri |-> uri]

HoverCall(uri, position) ==
    [cmd |-> "vscode.executeHoverProvider", uri |-> uri, position |-> position]

ReferenceCall(uri, position) ==
    [cmd |-> "vscode.executeReferenceProvider", uri |-> uri, position |-> position]

Return(h, value) == [h EXCEPT !.pc = "done", !.outcome = [type |-> "return", value |-> value]]

Throw(h, message) ==
    [h EXCEPT !.pc = "done", !.raised = TRUE,
              !.outcome = [type |-> "throw", message |-> message]]

MissingField == [error |-> "Missing required field: symbolName"]

NoSymbolNamed(name) == [error |-> "No symbol named found", symbolName |-> name]

EngineFailure == [error |-> "engine command failed"]

\* A find that settles for the first symbol the index returned.
FindFirst(symbols, symbolName) == IF Len(symbols) > 0 THEN 1 ELSE 0

\* symbols.find(s => s.name === symbolName): the index of the first exact
\* match, 0 when there is none.
FindExact(symbols, symbolName) ==
    LET hits == {i \in 1..Len(symbols) : symbols[i].name = symbolName}
    IN  IF hits = {} THEN 0 ELSE CHOOSE i \in hits : \A j \in hits : i <= j

\* loc => ({uri, range: {start, end}}) of the reference lists.
ReferenceData(loc) == [uri |-> loc.uri, range |-> [start |-> loc.start, end |-> loc.end]]

\* A conversion that keeps the first of equal references only.
RECURSIVE MapReferencesDistinct(_)
MapReferencesDistinct(refs) ==
    IF refs = <<>> THEN <<>>
    ELSE LET front == SubSeq(refs, 1, Len(refs) - 1)
             last == refs[Len(refs)]
         IN  IF \E i \in 1..Len(front) : front[i] = last
             THEN MapReferencesDistinct(front)
             ELSE Append(MapReferencesDistinct(front),
                         [uri |-> last.uri, range |-> [start |-> last.start, end |-> last.end]])

MapReferences(refs) == [i \in 1..Len(refs) |-> ReferenceData(refs[i])]

SymbolOf(h) ==
    [name |-> h.param.items, uri |-> h.location.uri, position |-> h.location.position]

\* The health handler of the pipe variants.
healthResult ==
    [status |-> "ok",
     workspace |-> IF workspaceFolders # <<>> THEN workspaceFolders[1] ELSE <<>>,
     pipeName |-> pipeName]

----------------------------------------------------------------------------
\* Pipe variant, lines 421-519: handleFindReferences and findSymbolLocation.

\* STEP 2 of handleFindReferences: the location is known, ask for references.
QueryReferences(h, loc) ==
    Call([h EXCEPT !.location = loc], "references", ReferenceCall(loc.uri, loc.position))

\* A fallback loop whose document index is shared by all resolutions and is
\* not reset: a resolution starts after the last document any earlier one
\* looked into.
RECURSIVE scanDocumentsSharedIndex(_, _)
scanDocumentsSharedIndex(h, i) ==
    LET seen == {handlers[k].doc : k \in DOMAIN handlers}
        from == IF i = 1 /\ seen # {}
                THEN 1 + CHOOSE d \in seen : \A e \in seen : e <= d
                ELSE i
    IN  IF from > Len(world.docs) THEN Throw(h, NoSymbolNamed(h.param.items))
        ELSE LET document == world.docs[from]
             IN  IF document.scheme # "file" \/ ~document.inWorkspace
                 THEN scanDocumentsSharedIndex(h, from + 1)
                 ELSE Call([h EXCEPT !.doc = from], "docSymbols",
                           DocumentSymbolCall(document.uri))

\* A fallback loop without the workspace-folder test.
RECURSIVE scanDocumentsAnyFile(_, _)
scanDocumentsAnyFile(h, i) ==
    IF i > Len(world.docs) THEN Throw(h, NoSymbolNamed(h.param.items))
    ELSE LET document == world.docs[i]
         IN  IF document.scheme # "file" THEN scanDocumentsAnyFile(h, i + 1)
             ELSE Call([h EXCEPT !.doc = i], "docSymbols", DocumentSymbolCall(document.uri))

\* A fallback loop that forgets to report null when no document is left and
\* goes on to the reference query.
RECURSIVE scanDocumentsNoNull(_, _)
scanDocumentsNoNull(h, i) ==
    IF i > Len(world.docs) THEN QueryReferences(h, NoLocation)
    ELSE LET document == world.docs[i]
         IN  IF document.scheme # "file" THEN scanDocumentsNoNull(h, i + 1)
             ELSE IF ~document.inWorkspace THEN scanDocumentsNoNull(h, i + 1)
             ELSE Call([h EXCEPT !.doc = i], "docSymbols", DocumentSymbolCall(document.uri))

\* The head of the fallback loop of findSymbolLocation from document i on:
\* skip what is not a file or not in a workspace folder, ask for the outline
\* of the first document left; with no document left findSymbolLocation
\* returns null and handleFindReferences throws.
RECURSIVE scanDocuments(_, _)
scanDocuments(h, i) ==
    IF i > Len(world.docs) THEN Throw(h, NoSymbolNamed(h.param.items))
    ELSE LET document == world.docs[i]
         IN  IF document.scheme # "file" THEN scanDocuments(h, i + 1)
             ELSE IF ~document.inWorkspace THEN scanDocuments(h, i + 1)
             ELSE Call([h EXCEPT !.doc = i], "docSymbols", DocumentSymbolCall(document.uri))

\* handleFindReferences up to its first await.
handleFindReferences(h) ==
    IF Falsy(h.param) THEN Throw(h, MissingField)
    ELSE Call(h, "wsSymbols", WorkspaceSymbolCall(h.param.items))

\* The handler from the await it is suspended at, given the command's
\* answer, up to its next await or its end.
resumeFindReferences(h, answer) ==
    LET symbolName == h.param.items
        document == world.docs[h.doc]
    IN  CASE h.pc = "wsSymbols" ->
               LET symbols == IF answer.defined THEN answer.items ELSE <<>>
                   exactMatch == FindExact(symbols, symbolName)
               IN  IF exactMatch # 0
                   THEN QueryReferences(h, FoundAt(symbols[exactMatch].uri,
                            symbols[exactMatch].start, symbols[exactMatch].end,
                            symbols[exactMatch].name, "workspace"))
                   ELSE scanDocuments(h, 1)
          [] h.pc = "docSymbols" ->
               LET found == findSymbolInTree(IF answer.defined THEN answer.items ELSE <<>>,
                                             symbolName)
                   match == regexExec(document.text, symbolName, 0)
               IN  IF found.found
                   THEN QueryReferences(h, FoundAt(document.uri, found.symbol.start,
                            found.symbol.start, found.symbol.name, "outline"))
                   ELSE IF match # -1
                   THEN LET position == positionAt(document.text, match)
                        IN  Call([h EXCEPT !.position = position], "hover",
                                 HoverCall(document.uri, position))
                   ELSE scanDocuments(h, h.doc + 1)
          [] h.pc = "hover" ->
               IF answer.defined /\ Len(answer.items) > 0
               THEN QueryReferences(h, FoundAt(document.uri, h.position, h.position,
                        symbolName, "text"))
               ELSE scanDocuments(h, h.doc + 1)
          [] h.pc = "references" ->
               Return(h, [symbol |-> SymbolOf(h),
                          references |-> MapReferences(IF answer.defined THEN answer.items
                                                       ELSE <<>>),
                          totalReferences |-> IF answer.defined THEN Len(answer.items) ELSE 0])

----------------------------------------------------------------------------
\* Earlier pipe variant, lines 138-282: handleFindReferences and
\* findSymbolInDocuments.

RECURSIVE scanDocuments_early(_, _)
scanDocuments_early(h, i) ==
    IF i > Len(world.docs) THEN Throw(h, NoSymbolNamed(h.param.items))
    ELSE LET document == world.docs[i]
         IN  IF document.scheme # "file" THEN scanDocuments_early(h, i + 1)
             ELSE Call([h EXCEPT !.doc = i], "docSymbols", DocumentSymbolCall(document.uri))

handleFindReferences_early(h) ==
    IF Falsy(h.param) THEN Throw(h, MissingField)
    ELSE Call(h, "wsSymbols", WorkspaceSymbolCall(h.param.items))

\* The while loop over regex.exec of the global regex: probe the next match
\* from lastIndex, or go on to the next document.
nextTextMatch_early(h, lastIndex) ==
    LET document == world.docs[h.doc]
        match == regexExec(document.text, h.param.items, lastIndex)
    IN  IF match # -1
        THEN LET position == positionAt(document.text, match)
             IN  Call([h EXCEPT !.position = position,
                                !.lastIndex = match + Len(h.param.items)],
                      "hover", HoverCall(document.uri, position))
        ELSE scanDocuments_early(h, h.doc + 1)

resumeFindReferences_early(h, answer) ==
    LET symbolName == h.param.items
        document == world.docs[h.doc]
    IN  CASE h.pc = "wsSymbols" ->
               LET exactMatch == IF answer.defined /\ Len(answer.items) > 0
                                 THEN FindExact(answer.items, symbolName) ELSE 0
               IN  IF exactMatch # 0
                   THEN QueryReferences(h, FoundAt(answer.items[exactMatch].uri,
                            answer.items[exactMatch].start, answer.items[exactMatch].end,
                            answer.items[exactMatch].name, "workspace"))
                   ELSE scanDocuments_early(h, 1)
          [] h.pc = "docSymbols" ->
               LET found == IF answer.defined
                            THEN findSymbolInTree(answer.items, symbolName)
                            ELSE NotFoundSymbol
               IN  IF found.found
                   THEN QueryReferences(h, FoundAt(document.uri, found.symbol.start,
                            found.symbol.start, found.symbol.name, "outline"))
                   ELSE nextTextMatch_early(h, 0)
          [] h.pc = "hover" ->
               IF answer.defined /\ Len(answer.items) > 0
               THEN QueryReferences(h, FoundAt(document.uri, h.position, h.position,
                        symbolName, "text"))
               ELSE nextTextMatch_early(h, h.lastIndex)
          [] h.pc = "references" ->
               IF ~answer.defined \/ Len(answer.items) = 0
               THEN Return(h, [symbol |-> SymbolOf(h), references |-> <<>>,
                               message |-> "Symbol found but no references"])
               ELSE Return(h, [symbol |-> SymbolOf(h),
                               references |-> MapReferences(answer.items),
                               totalReferences |-> Len(answer.items)])

----------------------------------------------------------------------------
\* HTTP variant, src/extension.ts lines 45-144: POST /api/findReferences.

\* res.status(status).json(body); the handler ends.
Respond(h, status, body) ==
    [h EXCEPT !.pc = "done", !.outcome = [type |-> "http", status |-> status, body |-> body]]

\* A catch block that lets the error escape instead of answering.
httpRethrow(h, err) == Throw(h, err)

\* The catch block of lines 137-143.
httpCatch(h, err) ==
    Respond(h, 500, [error |-> "Failed to find references", message |-> err.error])

\* The symbol of a 200 answer, lines 74-88; every symbol of the model is of
\* kind Function.
httpSymbolOf(h) ==
    [name |-> h.location.name, kind |-> "Function", uri |-> h.location.uri,
     range |-> [start |-> h.location.position, end |-> h.location.end]]

postFindReferences(h) ==
    IF Falsy(h.param)
    THEN Respond(h, 400, [error |-> "Missing required field: symbolName",
                          example |-> "CustomeFormField"])
    ELSE Call(h, "wsSymbols", WorkspaceSymbolCall(h.param.items))

resumePostFindReferences(h, answer) ==
    CASE h.pc = "wsSymbols" ->
           IF ~answer.defined \/ Len(answer.items) = 0
           THEN Respond(h, 404, [error |-> "Symbol not found",
                                 symbolName |-> h.param.items,
                                 message |-> "No symbol named found in the workspace"])
           ELSE LET symbol == answer.items[1]
                IN  Call([h EXCEPT !.location = FoundAt(symbol.uri, symbol.start,
                                       symbol.end, symbol.name, "workspace")],
                         "references", ReferenceCall(symbol.uri, symbol.start))
      [] h.pc = "references" ->
           IF ~answer.defined \/ Len(answer.items) = 0
           THEN Respond(h, 200, [symbol |-> httpSymbolOf(h), references |-> <<>>,
                                 message |-> "Symbol found but no references"])
           ELSE Respond(h, 200, [symbol |-> httpSymbolOf(h),
                                 references |-> MapReferences(answer.items),
                                 totalReferences |-> Len(answer.items)])

\* GET /api/health, lines 33-42.
getHealth(h) ==
    Respond(h, 200, [status |-> "ok",
                     workspace |-> IF workspaceFolders # <<>> THEN workspaceFolders[1]
                                   ELSE <<>>])

\* A request for a path startServer registered no route for (only
\* app.get('/api/health') and app.post('/api/findReferences') exist, lines
\* 33 and 45) falls through the router: express answers 404.
routeNotFound(h) == Respond(h, 404, [error |-> "Cannot POST"])

----------------------------------------------------------------------------
\* A handler invoked on a request, up to its first await or its end.
StartHandler(method, param) ==
    LET h == NewHandler(method, param)
    IN  CASE variant = "http" /\ method = "health" -> getHealth(h)
          [] variant = "http" /\ method \notin {"health", "findReferences"} ->
                 routeNotFound(h)
          [] variant = "http" /\ method = "findReferences" -> postFindReferences(h)
          [] variant # "http" /\ method = "health" -> Return(h, healthResult)
          [] variant = "pipe" /\ method = "findReferences" -> handleFindReferences(h)
          [] variant = "pipeEarly" /\ method = "findReferences" ->
                 handleFindReferences_early(h)

\* What the command a handler is suspended at answers when it does not fail.
EngineAnswer(h) ==
    CASE h.pc = "wsSymbols" -> world.ws
      [] h.pc = "docSymbols" -> world.docs[h.doc].outline
      [] h.pc = "hover" -> IF h.position \in world.docs[h.doc].hoverAt
                           THEN List(<<"hover">>) ELSE List(<<>>)
      [] h.pc = "references" -> world.refs

\* A suspended handler when its command settles: with the answer, or with a
\* rejection, which the await rethrows.
ResumeHandler(h, threw) ==
    IF threw
    THEN IF variant = "http" THEN httpCatch([h EXCEPT !.raised = TRUE], EngineFailure)
         ELSE Throw(h, EngineFailure)
    ELSE CASE variant = "http" -> resumePostFindReferences(h, EngineAnswer(h))
           [] variant = "pipe" -> resumeFindReferences(h, EngineAnswer(h))
           [] variant = "pipeEarly" -> resumeFindReferences_early(h, EngineAnswer(h))

(***************************************************************************)
(* THE SERVERS AND THE CLIENT'S REQUESTS                                   *)
(***************************************************************************)
Variants == {"pipe", "pipeEarly", "http"}

PipeVariants == {"pipe", "pipeEarly"}

Methods == {"health", "findReferences"}

\* params.symbolName / req.body.symbolName: missing, empty, or a name.
SymbolNameParams == {Undefined, List(<<>>), List(NameF)}

\* The paths the HTTP clients of the repository post to: those of Methods
\* and /api/textDocument/references of test-api.sh and the first README.
HttpPaths == Methods \cup {"textDocument/references"}

\* The body of a POST to /api/textDocument/references: {uri, position}.
LocationBody(uri, position) ==
    [defined |-> TRUE, items |-> <<>>, uri |-> uri, position |-> position]

\* The bodies posted: missing or empty symbolName, a name, a location.
HttpBodies == SymbolNameParams \cup {LocationBody(UriA, Pos(3, 9))}

ServerInit(worlds, n) ==
    /\ variant \in Variants
    /\ world \in worlds
    /\ budget = n
    /\ listening = TRUE
    /\ requests = <<>>
    /\ c2s = <<>>
    /\ s2c = <<>>
    /\ handlers = <<>>
    /\ starts = <<>>
    /\ timers = {}
    /\ responses = <<>>

ServerIdle ==
    /\ variant = "pipe"
    /\ world = World(Undefined, <<>>, Undefined)
    /\ budget = 0
    /\ listening = FALSE
    /\ requests = <<>>
    /\ c2s = <<>>
    /\ s2c = <<>>
    /\ handlers = <<>>
    /\ starts = <<>>
    /\ timers = {}
    /\ responses = <<>>

\* The message connection's answer to a request whose handler ended: the
\* result, or an error response when the handler threw, under the request's
\* id.
Reply(id, outcome) ==
    IF outcome.type = "return" THEN Message(id, "r", outcome.value)
    ELSE Message(id, "e", outcome.message)

\* What leaves the server when handler k has ended as h.
Answers(k, h) ==
    IF h.pc # "done" THEN <<>>
    ELSE IF variant \in PipeVariants THEN <<[key |-> k, msg |-> Reply(k, h.outcome)]>>
    ELSE IF h.outcome.type = "http"
         THEN <<[key |-> k, msg |-> [status |-> h.outcome.status, body |-> h.outcome.body]]>>
    ELSE <<>>

\* sendRequest, lines 66-91.
ClientSendRequest(method, param) ==
    /\ variant \in PipeVariants
    /\ listening
    /\ messageId < budget
    /\ LET id == messageId + 1
       IN  /\ messageId' = id
           /\ pendingRequests' = pendingRequests \cup {id}
           /\ c2s' = Append(c2s, [id |-> id, method |-> method, param |-> param])
           /\ timers' = timers \cup {id}
           /\ requests' = Append(requests, [id |-> id, method |-> method, param |-> param])
    /\ UNCHANGED <<variant, world, budget, listening, s2c, handlers, starts, responses>>
    /\ UNCHANGED <<settled, stream, wire, buffer, decoded, extracted>>
    /\ UNCHANGED namerVars
    /\ UNCHANGED hostVars
    /\ UNCHANGED connVars

\* A connection that takes the newest request of its queue first.
NextRequestNewest(queue) == Len(queue)

\* The request the message connection hands to a handler next: the oldest
\* one it has read.
NextRequest(queue) == 1

\* The message connection of lines 375-398 takes the next request and invokes
\* the handler registered for its method, which runs up to its first await
\* (or to its end).
ServerDispatch ==
    /\ variant \in PipeVariants
    /\ listening
    /\ c2s # <<>>
    /\ LET n == NextRequest(c2s)
           request == c2s[n]
           h == StartHandler(request.method, request.param)
           out == Answers(request.id, h)
       IN  /\ handlers' = handlers @@ (request.id :> h)
           /\ starts' = Append(starts, request.id)
           /\ c2s' = SubSeq(c2s, 1, n - 1) \o SubSeq(c2s, n + 1, Len(c2s))
           /\ s2c' = s2c \o [i \in 1..Len(out) |-> out[i].msg]
           /\ responses' = responses \o out
    /\ UNCHANGED <<variant, world, budget, listening, requests, timers>>
    /\ UNCHANGED framerVars
    /\ UNCHANGED namerVars
    /\ UNCHANGED hostVars
    /\ UNCHANGED connVars

\* express invokes the route's handler on a request: app.get('/api/health')
\* or app.post('/api/findReferences').
HttpRequest(method, param) ==
    /\ variant = "http"
    /\ listening
    /\ Len(requests) < budget
    /\ LET k == Len(requests) + 1
           h == StartHandler(method, param)
       IN  /\ requests' = Append(requests, [id |-> k, method |-> method, param |-> param])
           /\ handlers' = handlers @@ (k :> h)
           /\ starts' = Append(starts, k)
           /\ responses' = responses \o Answers(k, h)
    /\ UNCHANGED <<variant, world, budget, listening, c2s, s2c, timers>>
    /\ UNCHANGED framerVars
    /\ UNCHANGED namerVars
    /\ UNCHANGED hostVars
    /\ UNCHANGED connVars

\* The engine command handler k is suspended at settles, with an answer or
\* with a rejection, and the handler runs on to its next await or its end.
EngineReturn(k, threw) ==
    /\ k \in DOMAIN handlers
    /\ handlers[k].pc \in Awaiting
    /\ LET h == ResumeHandler(handlers[k], threw)
           out == Answers(k, h)
       IN  /\ handlers' = [handlers EXCEPT ![k] = h]
           /\ responses' = responses \o out
           /\ s2c' = IF variant \in PipeVariants
                     THEN s2c \o [i \in 1..Len(out) |-> out[i].msg]
                     ELSE s2c
    /\ UNCHANGED <<variant, world, budget, listening, requests, c2s, starts, timers>>
    /\ UNCHANGED framerVars
    /\ UNCHANGED namerVars
    /\ UNCHANGED hostVars
    /\ UNCHANGED connVars

\* The frame of the next response arrives whole: processBuffer parses it and
\* settles the request it names (lines 48-59).
ClientReceive ==
    /\ s2c # <<>>
    /\ LET after == handleMessage(Head(s2c), pendingRequests, settled)
       IN  /\ pendingRequests' = after[1]
           /\ settled' = after[2]
    /\ s2c' = Tail(s2c)
    /\ UNCHANGED <<variant, world, budget, listening, requests, c2s, handlers, starts,
                   timers, responses>>
    /\ UNCHANGED <<messageId, stream, wire, buffer, decoded, extracted>>
    /\ UNCHANGED namerVars
    /\ UNCHANGED hostVars
    /\ UNCHANGED connVars

RequestTimeout == [error |-> "Request timeout"]

\* The setTimeout callback of lines 84-89 for request id.
ClientTimeout(id) ==
    /\ id \in timers
    /\ timers' = timers \ {id}
    /\ IF id \in pendingRequests
       THEN /\ pendingRequests' = pendingRequests \ {id}
            /\ settled' = Append(settled, [id |-> id, how |-> "reject",
                                           value |-> RequestTimeout])
       ELSE UNCHANGED <<pendingRequests, settled>>
    /\ UNCHANGED <<variant, world, budget, listening, requests, c2s, s2c, handlers,
                   starts, responses>>
    /\ UNCHANGED <<messageId, stream, wire, buffer, decoded, extracted>>
    /\ UNCHANGED namerVars
    /\ UNCHANGED hostVars
    /\ UNCHANGED connVars

ServerNext ==
    \/ \E method \in Methods, param \in SymbolNameParams : ClientSendRequest(method, param)
    \/ ServerDispatch
    \/ \E path \in HttpPaths, body \in HttpBodies : HttpRequest(path, body)
    \/ \E k \in 1..MaxRequests + 1, threw \in BOOLEAN : EngineReturn(k, threw)
    \/ ClientReceive
    \/ \E id \in 1..MaxRequests + 1 : ClientTimeout(id)

(***************************************************************************)
(* STARTUP: activate(), the bind of the address and its outcome            *)
(***************************************************************************)
\* config.get('port', 3000) of the HTTP variant.
DefaultPort == 3000

\* The ports the lspPoc.port setting holds in the model.
Ports == {DefaultPort, DefaultPort + 1}

\* What listen() is given: a pipe name or a port.
PipeEndpoint(name) == [pipe |-> name]

PortEndpoint(port) == [port |-> port]

NoEndpoint == [none |-> TRUE]

Inactive ==
    [state |-> "inactive", folders |-> <<>>, address |-> NoEndpoint, attempts |-> 0,
     listened |-> FALSE, failed |-> FALSE, blockedBy |-> 0, served |-> FALSE]

HostIdle ==
    /\ instances = <<>>
    /\ inUse = {}
    /\ notifications = {}

\* Another program holds the default port, or nothing is bound yet.
HostInit ==
    /\ instances = [i \in 1..MaxInstances |-> Inactive]
    /\ inUse \in {{}, {[address |-> PortEndpoint(DefaultPort), holder |-> 0]}}
    /\ notifications = {}

\* An error handler that tries the next address instead of giving up.
onListenErrorRetry(inst, holder) ==
    [inst EXCEPT !.state = "binding", !.attempts = @ + 1,
                 !.address = IF variant = "http" THEN PortEndpoint(DefaultPort + 2)
                            ELSE PipeEndpoint(<<"retry">>)]

\* pipeServer.on('error') / server.on('error'): the message is shown, and
\* nothing else is done (test-sample.ts 414-418, extension.ts 154-165).
onListenError(inst, holder) ==
    [inst EXCEPT !.state = "failed", !.failed = TRUE, !.blockedBy = holder]

\* activate(): startNamedPipeServer() computes pipeName and calls
\* pipeServer.listen(pipeName); startServer(port) calls app.listen(port).
Activate(i, folders, port) ==
    /\ instances[i].state = "inactive"
    /\ \E a \in IF variant = "http" THEN {PortEndpoint(port)}
                ELSE {PipeEndpoint(name) : name \in generatePipeName(platform, folders)} :
          instances' = [instances EXCEPT ![i] =
                           [@ EXCEPT !.state = "binding", !.folders = folders,
                                     !.address = a, !.attempts = @ + 1]]
    /\ UNCHANGED <<inUse, notifications>>
    /\ UNCHANGED <<namerVars, framerVars, serverVars, connVars>>

\* The outcome of listen(): the 'listening' callback when the address was
\* free, the 'error' event (EADDRINUSE) when it was not.
ListenOutcome(i) ==
    /\ instances[i].state = "binding"
    /\ LET inst == instances[i]
           taken == {b \in inUse : b.address = inst.address}
       IN  IF taken = {}
           THEN /\ instances' = [instances EXCEPT ![i] =
                                    [@ EXCEPT !.state = "listening", !.listened = TRUE]]
                /\ inUse' = inUse \cup {[address |-> inst.address, holder |-> i]}
                /\ notifications' = notifications \cup {[instance |-> i, level |-> "info"]}
           ELSE /\ instances' = [instances EXCEPT ![i] =
                                    onListenError(inst, (CHOOSE b \in taken : TRUE).holder)]
                /\ inUse' = inUse
                /\ notifications' = notifications \cup {[instance |-> i, level |-> "error"]}
    /\ UNCHANGED <<namerVars, framerVars, serverVars, connVars>>

\* A listening server accepts and answers a request.
Serve(i) ==
    /\ instances[i].state = "listening"
    /\ ~instances[i].served
    /\ instances' = [instances EXCEPT ![i] = [@ EXCEPT !.served = TRUE]]
    /\ UNCHANGED <<inUse, notifications>>
    /\ UNCHANGED <<namerVars, framerVars, serverVars, connVars>>

\* deactivation: the disposable of activate() closes the server.
Deactivate(i) ==
    /\ instances[i].state \in {"listening", "failed"}
    /\ instances' = [instances EXCEPT ![i] = [@ EXCEPT !.state = "closed"]]
    /\ inUse' = {b \in inUse : b.holder # i}
    /\ UNCHANGED notifications
    /\ UNCHANGED <<namerVars, framerVars, serverVars, connVars>>

\* The workspace roots of the hosts: two that differ in case only, two that
\* the digest of the model does not tell apart, and no workspace at all.
HostFolders == {<<>>, <<(<<"a">>)>>, <<(<<"A">>)>>, <<(<<"a", "/">>)>>, <<(<<"/", "a">>)>>}

HostNext ==
    \/ \E i \in 1..MaxInstances, folders \in HostFolders,
          port \in Ports : Activate(i, folders, port)
    \/ \E i \in 1..MaxInstances : ListenOutcome(i)
    \/ \E i \in 1..MaxInstances : Serve(i)
    \/ \E i \in 1..MaxInstances : Deactivate(i)

(***************************************************************************)
(* CONNECTIONS of the pipe server: net.createServer((socket) => ...)       *)
(***************************************************************************)
NoConnection == [state |-> "none", registered |-> {}, disposed |-> FALSE, afterClose |-> FALSE]

ConnIdle ==
    /\ conns = <<>>
    /\ jobs = <<>>
    /\ written = <<>>
    /\ dropped = {}
    /\ crashed = FALSE

ConnInit ==
    /\ conns = [c \in 1..MaxConnections |-> NoConnection]
    /\ jobs = <<>>
    /\ written = [c \in 1..MaxConnections |-> <<>>]
    /\ dropped = {}
    /\ crashed = FALSE

\* The connection callback, lines 372-398: a message connection of its own on
\* the socket, both methods registered on it, then connection.listen().
onConnection(cs) ==
    [state |-> "open", registered |-> {"findReferences", "health"}, disposed |-> FALSE,
     afterClose |-> \E c \in DOMAIN cs : cs[c].state = "closed"]

\* A close handler that disposes every message connection of the server.
disposeAll(cs, c) ==
    [d \in DOMAIN cs |-> IF d = c THEN [cs[d] EXCEPT !.state = "closed", !.disposed = TRUE]
                         ELSE [cs[d] EXCEPT !.disposed = cs[d].state # "none"]]

\* socket.on('close', () => connection.dispose()), lines 400-402: the
\* connection of the closure, and no other.
dispose(cs, c) == [cs EXCEPT ![c] = [@ EXCEPT !.state = "closed", !.disposed = TRUE]]

\* A message connection whose failed write escapes as an unhandled error.
sendResponseUnhandled(conn) ==
    IF conn.state = "open" /\ ~conn.disposed THEN "written" ELSE "escaped"

\* What becomes of the response of a handler that ended: the message
\* connection writes it to its own socket (StreamMessageWriter(socket), line
\* 377); on a disposed connection the write fails and the response is gone.
sendResponse(conn) ==
    IF conn.state = "open" /\ ~conn.disposed THEN "written" ELSE "dropped"

\* The jobs, written responses, dropped responses and crash flag once job j
\* has run as h.
AfterRun(js, j, h) ==
    LET job == [js[j] EXCEPT !.h = h]
        c == job.conn
        fate == IF h.pc = "done" THEN sendResponse(conns[c]) ELSE "none"
    IN  [jobs |-> [js EXCEPT ![j] = job],
         written |-> IF fate = "written"
                     THEN [written EXCEPT ![c] = Append(@, [job |-> j,
                                                            msg |-> Reply(job.id, h.outcome)])]
                     ELSE written,
         dropped |-> IF fate = "dropped" THEN dropped \cup {j} ELSE dropped,
         crashed |-> crashed \/ fate = "escaped"]

\* The server accepts a connection on socket c.
Accept(c) ==
    /\ listening /\ ~crashed
    /\ variant \in PipeVariants
    /\ conns[c].state = "none"
    /\ conns' = [conns EXCEPT ![c] = onConnection(conns)]
    /\ UNCHANGED <<jobs, written, dropped, crashed>>
    /\ UNCHANGED <<namerVars, framerVars, serverVars, hostVars>>

\* A request arrives on socket c: its message connection invokes the handler
\* registered for the method, which runs to its first await or to its end.
ConnRequest(c, method, param) ==
    /\ ~crashed
    /\ conns[c].state = "open" /\ ~conns[c].disposed
    /\ method \in conns[c].registered
    /\ Len(jobs) < budget
    /\ LET id == Cardinality({j \in DOMAIN jobs : jobs[j].conn = c}) + 1
           js == Append(jobs, [conn |-> c, id |-> id, h |-> NewHandler(method, param),
                               orphaned |-> FALSE])
           after == AfterRun(js, Len(js), StartHandler(method, param))
       IN  /\ jobs' = after.jobs
           /\ written' = after.written
           /\ dropped' = after.dropped
           /\ crashed' = after.crashed
    /\ UNCHANGED conns
    /\ UNCHANGED <<namerVars, framerVars, serverVars, hostVars>>

\* The engine command job j is suspended at settles; nothing ties the command
\* or the handler to the socket, so this happens whatever became of it.
JobEngineReturn(j, threw) ==
    /\ ~crashed
    /\ j \in DOMAIN jobs
    /\ jobs[j].h.pc \in Awaiting
    /\ LET after == AfterRun(jobs, j, ResumeHandler(jobs[j].h, threw))
       IN  /\ jobs' = after.jobs
           /\ written' = after.written
           /\ dropped' = after.dropped
           /\ crashed' = after.crashed
    /\ UNCHANGED conns
    /\ UNCHANGED <<namerVars, framerVars, serverVars, hostVars>>

\* The client of socket c disconnects: the 'close' event.
SocketClose(c) ==
    /\ ~crashed
    /\ conns[c].state = "open"
    /\ conns' = dispose(conns, c)
    /\ jobs' = [j \in DOMAIN jobs |->
                   IF jobs[j].conn = c /\ jobs[j].h.pc \in Awaiting
                   THEN [jobs[j] EXCEPT !.orphaned = TRUE] ELSE jobs[j]]
    /\ UNCHANGED <<written, dropped, crashed>>
    /\ UNCHANGED <<namerVars, framerVars, serverVars, hostVars>>

ConnNext ==
    \/ \E c \in 1..MaxConnections : Accept(c)
    \/ \E c \in 1..MaxConnections, method \in Methods, param \in SymbolNameParams :
          ConnRequest(c, method, param)
    \/ \E j \in 1..MaxRequests + 1, threw \in BOOLEAN : JobEngineReturn(j, threw)
    \/ \E c \in 1..MaxConnections : SocketClose(c)

(***************************************************************************)
(* SPECIFICATIONS                                                          *)
(***************************************************************************)
InitNamer == NamerInit /\ FramerIdle /\ ServerIdle /\ HostIdle /\ ConnIdle

\* The endpoint namer on every platform and path.
SpecNamer == InitNamer /\ [][NamerNext]_vars

InitFramer == FramerInit /\ NamerIdle /\ ServerIdle /\ HostIdle /\ ConnIdle

\* The client's framer on every stream, in every chunking.
SpecFramer == InitFramer /\ [][FramerNext]_vars

InitServer == ServerInit(FewWorlds, MaxRequests) /\ NamerIdle /\ FramerIdle /\ HostIdle /\ ConnIdle

\* A server of either kind answering up to MaxRequests concurrent requests.
SpecServer == InitServer /\ [][ServerNext]_vars

InitResolver == ServerInit(Worlds, 1) /\ NamerIdle /\ FramerIdle /\ HostIdle /\ ConnIdle

\* A server of either kind answering one request, in every world.
SpecResolver == InitResolver /\ [][ServerNext]_vars

\* The same server and client, given that a timer that was set fires: the
\* event loop runs every setTimeout callback of sendRequest (lines 84-89).
SpecClientTimers ==
    /\ InitServer
    /\ [][ServerNext]_vars
    /\ \A id \in 1..MaxRequests : WF_vars(ClientTimeout(id))

\* The machine on every platform, running one variant of the extension.
InitHosts ==
    /\ HostInit
    /\ platform \in Platforms
    /\ workspaceFolders = <<>> /\ cwd = <<"/">>
    /\ pipeName = None /\ clientPipeName = None
    /\ serverReturned = {} /\ clientReturned = {}
    /\ FramerIdle
    /\ variant \in Variants
    /\ world = World(Undefined, <<>>, Undefined)
    /\ budget = 0 /\ listening = FALSE /\ requests = <<>> /\ c2s = <<>> /\ s2c = <<>>
    /\ handlers = <<>> /\ starts = <<>> /\ timers = {} /\ responses = <<>>
    /\ ConnIdle

\* Extension hosts starting, serving and stopping on one machine.
SpecHosts == InitHosts /\ [][HostNext]_vars

InitConnections ==
    /\ ConnInit
    /\ NamerIdle /\ FramerIdle /\ HostIdle
    /\ variant \in PipeVariants
    /\ world \in FewWorlds
    /\ budget = MaxRequests /\ listening = TRUE /\ requests = <<>> /\ c2s = <<>>
    /\ s2c = <<>> /\ handlers = <<>> /\ starts = <<>> /\ timers = {} /\ responses = <<>>

\* One pipe server, its connections coming and going while handlers run.
SpecConnections == InitConnections /\ [][ConnNext]_vars

(***************************************************************************)
(* Claims about the endpoint namer.                                        *)
(***************************************************************************)

\* Two paths that differ only in letter case (and do differ).
DifferOnlyInCase(p, q) == p # q /\ toLowerCase(p) = toLowerCase(q)

\* C1: when the extension's workspace root and the client's working directory
\* are the same path string on the same platform, every address the extension
\* computed equals every address the client computed, and each side computed
\* one address only, however often it was asked.
C1_SameEndpoint ==
    (workspaceFolders # <<>> /\ workspaceFolders[1] = cwd) =>
        /\ Cardinality(serverReturned) <= 1
        /\ Cardinality(clientReturned) <= 1
        /\ \A s \in serverReturned : \A c \in clientReturned : s = c
        /\ pipeName # None => pipeName \in serverReturned
        /\ (pipeName # None /\ clientPipeName # None) => pipeName = clientPipeName

\* Both sides have computed their address from a mixed-case path on win32.
C1_Witness ==
    /\ workspaceFolders # <<>> /\ workspaceFolders[1] = cwd
    /\ platform = "win32"
    /\ toLowerCase(cwd) # cwd
    /\ pipeName # None /\ clientPipeName # None

\* Platforms whose default file system ignores letter case.
CaseInsensitivePlatforms == {"win32", "darwin"}

RootsDifferOnlyInCase ==
    workspaceFolders # <<>> /\ DifferOnlyInCase(workspaceFolders[1], cwd)

HashesDiffer == md5Hex8(workspaceFolders[1]) # md5Hex8(cwd)

RECURSIVE MessagesFrom(_, _)
MessagesFrom(items, i) ==
    IF i > Len(items) THEN <<>>
    ELSE (IF items[i].junk THEN <<>> ELSE <<ItemMessage(items, i)>>)
         \o MessagesFrom(items, i + 1)

OriginalMessages == MessagesFrom(stream, 1)

HasJunk == \E i \in 1..Len(stream) : stream[i].junk

\* C3: once a stream of well-formed frames has been delivered, in whatever
\* chunks, the decoder has produced exactly the original messages, in order.
C3_RoundTrip ==
    (stream # <<>> /\ ~HasJunk /\ wire = <<>>) => decoded = OriginalMessages

\* Bytes of the stream a character of the buffer stands for: two for U+00E9,
\* one for an ASCII character and for each U+FFFD a lone byte was turned into.
RECURSIVE RawLength(_)
RawLength(str) ==
    IF str = <<>> THEN 0
    ELSE (IF Head(str) = "E9" THEN 2 ELSE 1) + RawLength(Tail(str))

\* C4: the length a frame announces is the number of UTF-8 bytes of its
\* body, and every body the decoder cuts out of its buffer spans exactly the
\* announced number of bytes of the stream.
C4_ByteLength ==
    /\ \A i \in 1..Len(stream) : ~stream[i].junk =>
          LET m == ItemMessage(stream, i)
              frame == toString(encodeFrame(m))
          IN  parseInt(matchContentLength(substring(frame, 0, indexOfTerminator(frame))))
                  = Len(Utf8(JSONstringify(m)))
    /\ \A i \in 1..Len(extracted) :
          RawLength(extracted[i].messageStr) = extracted[i].contentLength

\* C5: once a stream that holds a header block without Content-Length has
\* been delivered, every frame of the stream has been decoded and delivered,
\* in order, and nothing of the malformed block is left in the buffer.
C5_Resync ==
    (HasJunk /\ wire = <<>>) =>
        /\ decoded = OriginalMessages
        /\ [i \in 1..Len(settled) |-> settled[i].id] = [i \in 1..Len(decoded) |-> i]
        /\ buffer = <<>>

(***************************************************************************)
(* Claims about the servers and the client's requests.                     *)
(***************************************************************************)

PipeRun == variant \in PipeVariants

\* What a handler ended with, as the payload of its response.
Payload(h) == IF h.outcome.type = "return" THEN h.outcome.value ELSE h.outcome.message

AwaitingHandlers == {k \in DOMAIN handlers : handlers[k].pc \in Awaiting}

\* C6: on the pipe, every response carries the id of the request whose
\* handler produced its payload, the ids the client gives its requests are all
\* different, and a promise settled by a response is settled once, with the
\* result or error the server produced for the request of that id.
C6_Correlation ==
    PipeRun =>
        /\ \A i \in 1..Len(responses) :
              LET m == responses[i].msg
              IN  /\ m.id \in DOMAIN handlers
                  /\ handlers[m.id].pc = "done"
                  /\ m.text = Payload(handlers[m.id])
                  /\ m.kind = IF handlers[m.id].outcome.type = "return" THEN "r" ELSE "e"
        /\ \A i, j \in 1..Len(requests) : i # j => requests[i].id # requests[j].id
        /\ \A i, j \in 1..Len(settled) : i # j => settled[i].id # settled[j].id
        /\ \A i \in 1..Len(settled) :
              settled[i].value # RequestTimeout =>
                  LET id == settled[i].id
                  IN  /\ id \in DOMAIN handlers
                      /\ handlers[id].pc = "done"
                      /\ settled[i].value = Payload(handlers[id])
                      /\ settled[i].how = IF handlers[id].outcome.type = "return"
                                          THEN "resolve" ELSE "reject"

\* Two requests were outstanding together, the second was answered first,
\* and both promises were settled by their responses.
C6_Witness ==
    /\ PipeRun
    /\ Len(responses) = 2 /\ responses[1].key = 2 /\ responses[2].key = 1
    /\ Len(settled) = 2
    /\ settled[1].id = 2 /\ settled[1].value # RequestTimeout
    /\ settled[2].id = 1 /\ settled[2].value # RequestTimeout
    /\ settled[1].value # settled[2].value

\* C7: on the pipe at most one handler is suspended at an engine call at any
\* time (no later handler has started or issued a command meanwhile), and
\* responses are produced in request arrival order.
C7_OneAtATime ==
    PipeRun =>
        /\ Cardinality(AwaitingHandlers) <= 1
        /\ \A i, j \in 1..Len(responses) : i < j => responses[i].key < responses[j].key

ResponsesTo(k) == {i \in 1..Len(responses) : responses[i].key = k}

EmptyOrMissing(param) == param = Undefined \/ param = List(<<>>)

\* C9: a findReferences handler invoked with an empty or missing symbolName
\* has ended at once with the validation error (thrown on the pipe, hence a
\* JSON-RPC error; 400 {error, example} on HTTP) and has issued no engine
\* command.
C9_ValidationBeforeLookup ==
    \A k \in DOMAIN handlers :
        (handlers[k].method = "findReferences" /\ EmptyOrMissing(handlers[k].param)) =>
            /\ handlers[k].calls = <<>>
            /\ handlers[k].pc = "done"
            /\ Cardinality(ResponsesTo(k)) = 1
            /\ LET m == responses[CHOOSE i \in ResponsesTo(k) : TRUE].msg
               IN  IF PipeRun
                   THEN m.id = k /\ m.kind = "e" /\ m.text = MissingField
                   ELSE m.status = 400 /\ DOMAIN m.body = {"error", "example"}

\* Requests with an empty symbolName were answered, on the pipe or on HTTP.
C9_Witness ==
    \E k \in DOMAIN handlers :
        /\ handlers[k].method = "findReferences"
        /\ handlers[k].param = List(<<>>)
        /\ handlers[k].pc = "done"

ExactInWorkspace(name) ==
    {i \in 1..Len(world.ws.items) : world.ws.items[i].name = name}

\* C10: in the pipe variants, a location taken from the workspace index
\* belongs to a symbol whose name is exactly symbolName, and when the index
\* answered with an exact match the handler's next and last command is the
\* reference query at the range start of the first exact match: no outline
\* and no hover query is made.
C10_ExactWorkspaceMatch ==
    PipeRun =>
        \A k \in DOMAIN handlers :
            LET h == handlers[k]
                exact == ExactInWorkspace(h.param.items)
            IN  h.method = "findReferences" =>
                /\ (h.location.found /\ h.location.source = "workspace") =>
                      /\ h.location.name = h.param.items
                      /\ exact # {}
                /\ (exact # {} /\ Len(h.calls) >= 2) =>
                      LET first == world.ws.items[CHOOSE i \in exact : \A j \in exact : i <= j]
                      IN  /\ Len(h.calls) = 2
                          /\ h.calls[2] = ReferenceCall(first.uri, first.start)
                          /\ h.location.source = "workspace"
                          /\ h.location.uri = first.uri
                          /\ h.location.position = first.start
                /\ (exact # {} /\ h.pc = "done" /\ ~h.raised) =>
                      /\ Len(h.calls) = 2
                      /\ h.outcome.value.symbol.uri = h.calls[2].uri
                      /\ h.outcome.value.symbol.position = h.calls[2].position

\* The index answered a longer name first and the exact name second, open
\* documents exist, and the handler returned the exact symbol's location.
C10_Witness ==
    /\ PipeRun
    /\ world.ws = List(<<SymFb_B, SymF_A>>)
    /\ world.docs # <<>>
    /\ \E k \in DOMAIN handlers :
          /\ handlers[k].method = "findReferences"
          /\ handlers[k].pc = "done" /\ handlers[k].outcome.type = "return"
          /\ handlers[k].outcome.value.symbol.uri = UriA
          /\ handlers[k].outcome.value.symbol.position = Pos(3, 9)

HttpHandlers(method) ==
    {k \in DOMAIN handlers : variant = "http" /\ handlers[k].method = method
                             /\ handlers[k].pc = "done"}

\* C11: POST /api/findReferences with a non-empty symbolName, when no engine
\* command failed: if the workspace has no symbol named symbolName the
\* response is 404 {error, symbolName, message}, and a 200 response describes
\* a symbol whose name is symbolName.
C11_NotFoundOrSameName ==
    \A k \in HttpHandlers("findReferences") :
        LET h == handlers[k]
        IN  (h.param \in {List(NameF)} /\ ~h.raised) =>
                /\ ExactInWorkspace(h.param.items) = {} =>
                      /\ h.outcome.status = 404
                      /\ DOMAIN h.outcome.body = {"error", "symbolName", "message"}
                /\ h.outcome.status = 200 => h.outcome.body.symbol.name = h.param.items

\* C12: POST /api/textDocument/references with a body {uri, position} is
\* answered 200 {references} with the engine's references at that location,
\* and with 400 when the body is malformed.
C12_TextDocumentReferences ==
    \A k \in HttpHandlers("textDocument/references") :
        LET h == handlers[k]
        IN  IF "uri" \in DOMAIN h.param /\ "position" \in DOMAIN h.param
            THEN /\ h.outcome.status = 200
                 /\ DOMAIN h.outcome.body = {"references"}
                 /\ h.outcome.body.references
                        = MapReferences(IF world.refs.defined THEN world.refs.items ELSE <<>>)
                 /\ h.calls = <<ReferenceCall(h.param.uri, h.param.position)>>
            ELSE h.outcome.status = 400

\* An engine command of the handler was rejected.
EngineFailed(h) ==
    h.raised /\ (IF variant = "http" THEN TRUE ELSE h.outcome.message = EngineFailure)

\* The findReferences handlers that have ended, for a name, without a failing
\* engine command.
EndedLookups ==
    {k \in DOMAIN handlers : /\ handlers[k].method = "findReferences"
                             /\ handlers[k].param = List(NameF)
                             /\ handlers[k].pc = "done"
                             /\ ~EngineFailed(handlers[k])}

RECURSIVE OutlineNames(_)
OutlineNames(symbols) ==
    IF symbols = <<>> THEN {}
    ELSE {Head(symbols).name} \cup OutlineNames(Head(symbols).children)
                              \cup OutlineNames(Tail(symbols))

\* The open documents the variant looks into.
Eligible(document) ==
    document.scheme = "file" /\ (variant = "pipe" => document.inWorkspace)

\* The text occurrences of the name the variant probes: the first one in the
\* later variant, every one in the earlier.
Probed(document, name) ==
    LET hits == MatchOffsets(document.text, name, 0)
    IN  IF variant = "pipe"
        THEN {i \in hits : \A j \in hits : i <= j}
        ELSE hits

NothingToFind(name) ==
    /\ ExactInWorkspace(name) = {}
    /\ \A i \in 1..Len(world.docs) :
          Eligible(world.docs[i]) =>
              /\ name \notin OutlineNames(world.docs[i].outline.items)
              /\ \A p \in Probed(world.docs[i], name) :
                    positionAt(world.docs[i].text, p) \notin world.docs[i].hoverAt

ReferenceCalls(h) ==
    {i \in 1..Len(h.calls) : h.calls[i].cmd = "vscode.executeReferenceProvider"}

\* C13: in the pipe variants, when neither the workspace index nor any
\* eligible open document yields a match, the handler has no location, has
\* thrown the not-found error naming the symbol and has never called the
\* reference provider; and a handler without a location always ends so.
C13_NotFound ==
    PipeRun =>
        \A k \in EndedLookups :
            LET h == handlers[k]
            IN  /\ NothingToFind(h.param.items) => ~h.location.found
                /\ ~h.location.found =>
                      /\ h.outcome = [type |-> "throw", message |-> NoSymbolNamed(h.param.items)]
                      /\ ReferenceCalls(h) = {}
                      /\ \E i \in ResponsesTo(k) :
                            responses[i].msg = Message(k, "e", NoSymbolNamed(h.param.items))

\* The index answered near misses only, the one eligible document matched in
\* its text without hover data, and the handler ended after the hover probe.
C13_Witness ==
    /\ variant = "pipe"
    /\ world.ws = List(<<SymUpperF_A, SymFb_B>>)
    /\ world.docs = <<DocOutside, DocTextNoHover>>
    /\ \E k \in EndedLookups :
          /\ Len(handlers[k].calls) = 3
          /\ handlers[k].outcome.type = "throw"

\* The body of a successful findReferences answer.
Succeeded(h) ==
    IF variant = "http" THEN h.outcome.status = 200 ELSE h.outcome.type = "return"

ResultOf(h) == IF variant = "http" THEN h.outcome.body ELSE h.outcome.value

EngineReferences == IF world.refs.defined THEN world.refs.items ELSE <<>>

\* C14: a successful answer lists the references the engine returned at the
\* resolved location, one entry per engine entry in the engine's order with
\* its uri and range, and the reference provider was called exactly once, at
\* the resolved uri and position.
C14_PassThrough ==
    \A k \in EndedLookups :
        LET h == handlers[k]
            result == ResultOf(h)
        IN  Succeeded(h) =>
                /\ Len(result.references) = Len(EngineReferences)
                /\ \A i \in 1..Len(EngineReferences) :
                      /\ result.references[i].uri = EngineReferences[i].uri
                      /\ result.references[i].range.start = EngineReferences[i].start
                      /\ result.references[i].range.end = EngineReferences[i].end
                /\ Cardinality(ReferenceCalls(h)) = 1
                /\ h.calls[Len(h.calls)] = ReferenceCall(h.location.uri, h.location.position)
                /\ h.location.found

\* An answer with the engine's three references, two of them equal.
C14_Witness ==
    /\ world.refs = List(<<RefUse, RefDecl, RefUse>>)
    /\ \E k \in EndedLookups :
          /\ Succeeded(handlers[k])
          /\ Len(ResultOf(handlers[k]).references) = 3

\* C15: every successful findReferences answer, in every variant, has the
\* fields symbol {name, uri, position}, references and totalReferences, and
\* totalReferences is the length of references.
C15_ResultShape ==
    \A k \in EndedLookups :
        LET h == handlers[k]
            result == ResultOf(h)
        IN  Succeeded(h) =>
                /\ {"symbol", "references", "totalReferences"} \subseteq DOMAIN result
                /\ DOMAIN result.symbol = {"name", "uri", "position"}
                /\ result.totalReferences = Len(result.references)

SettledFor(id) == {i \in 1..Len(settled) : settled[i].id = id}

\* What the client has made of its requests so far: no request is settled
\* twice; a tracked id is one that is not settled yet; a request whose timer
\* has fired is settled, by the response that came before the timer or else
\* by the 'Request timeout' rejection, and is no longer tracked.
SettledAtMostOnce ==
    \A id \in 1..messageId :
        /\ Cardinality(SettledFor(id)) <= 1
        /\ id \in pendingRequests <=> SettledFor(id) = {}
        /\ id \in pendingRequests => id \in timers
        /\ \A i \in SettledFor(id) :
              settled[i].value = RequestTimeout =>
                  settled[i].how = "reject" /\ id \notin timers

Reported(i, level) == [instance |-> i, level |-> level] \in notifications

\* C17: an instance whose bind failed has shown the operator an error, has
\* never been listening, has served no request, holds no address, and has
\* called listen once only.
C17_BindFailureIsFinal ==
    \A i \in DOMAIN instances :
        /\ instances[i].attempts <= 1
        /\ instances[i].failed =>
              /\ Reported(i, "error")
              /\ ~instances[i].listened
              /\ ~instances[i].served
              /\ instances[i].state \in {"failed", "closed"}
              /\ \A b \in inUse : b.holder # i

\* One instance listens and has served, the other failed to bind the same
\* address because of it.
C17_Witness ==
    \E i, j \in DOMAIN instances :
        /\ instances[i].state = "listening" /\ instances[i].served
        /\ instances[j].state = "failed" /\ instances[j].blockedBy = i
        /\ instances[j].address = instances[i].address

Running(i) == instances[i].state \in {"binding", "listening", "failed"}

DistinctWorkspaces(i, j) ==
    /\ instances[i].folders # <<>> /\ instances[j].folders # <<>>
    /\ NormalizePath(platform, instances[i].folders[1])
           # NormalizePath(platform, instances[j].folders[1])
    /\ md5Hex8(NormalizePath(platform, instances[i].folders[1]))
           # md5Hex8(NormalizePath(platform, instances[j].folders[1]))

\* C18: two running pipe-server instances whose workspace roots differ after
\* normalisation, and whose hashes differ, have different addresses, and
\* neither failed to bind because of the other.
C18_DistinctAddresses ==
    PipeRun =>
        \A i, j \in DOMAIN instances :
            (i # j /\ Running(i) /\ Running(j) /\ DistinctWorkspaces(i, j)) =>
                /\ instances[i].address # instances[j].address
                /\ instances[i].blockedBy # j
                /\ instances[j].blockedBy # i

\* Two pipe servers with distinct workspaces listen at the same time.
C18_Witness ==
    /\ PipeRun
    /\ \E i, j \in DOMAIN instances :
          /\ i # j /\ DistinctWorkspaces(i, j)
          /\ instances[i].state = "listening" /\ instances[j].state = "listening"

(***************************************************************************)
(* Claims about the connections of the pipe server.                        *)
(***************************************************************************)

WrittenFor(j) ==
    {c \in DOMAIN written : \E i \in 1..Len(written[c]) : written[c][i].job = j}

JobsDone == {j \in DOMAIN jobs : jobs[j].h.pc = "done"}

\* The job ended as the handler of its request ends when no command fails.
RanToCompletion(j) ==
    \/ jobs[j].h.raised /\ jobs[j].h.outcome.message = EngineFailure
    \/ \A k \in JobsDone :
          (/\ jobs[k].h.method = jobs[j].h.method
           /\ jobs[k].h.param = jobs[j].h.param
           /\ ~(jobs[k].h.raised /\ jobs[k].h.outcome.message = EngineFailure)) =>
              jobs[k].h.outcome = jobs[j].h.outcome

C20_IndependentConnections ==
    /\ \A c \in DOMAIN conns :
          /\ conns[c].state = "open" => conns[c].registered = {"findReferences", "health"}
          /\ conns[c].disposed <=> conns[c].state = "closed"
    /\ \A j \in JobsDone :
          conns[jobs[j].conn].state = "open" =>
              /\ j \notin dropped
              /\ \E i \in 1..Len(written[jobs[j].conn]) :
                    /\ written[jobs[j].conn][i].job = j
                    /\ written[jobs[j].conn][i].msg.id = jobs[j].id
    /\ \A c \in DOMAIN written : \A i \in 1..Len(written[c]) :
          jobs[written[c][i].job].conn = c

\* A connection accepted after another had closed was answered, and so was
\* a request sent on a connection after its neighbour had closed.
C20_Witness ==
    \E c, d \in DOMAIN conns :
        /\ conns[c].state = "closed"
        /\ conns[d].state = "open" /\ conns[d].afterClose
        /\ written[d] # <<>>

(***************************************************************************)
(* Claims about the resolver.                                              *)
(***************************************************************************)

\* The lookups of a name that have ended, no engine command having failed.
Resolved ==
    {k \in DOMAIN handlers : /\ handlers[k].method = "findReferences"
                             /\ handlers[k].param = List(NameF)
                             /\ handlers[k].pc = "done"
                             /\ ~EngineFailed(handlers[k])}

BytesOfItems(n) == Len(StreamBytes(SubSeq(stream, 1, n), 1))

DeliveredBytes == BytesOfItems(Len(stream)) - Len(wire)

\* The number of items of the stream whose bytes have all been delivered.
ItemsDelivered ==
    CHOOSE n \in 0..Len(stream) :
        /\ BytesOfItems(n) <= DeliveredBytes
        /\ \A m \in 0..Len(stream) : BytesOfItems(m) <= DeliveredBytes => m <= n

\* C22: after any delivery, every frame whose bytes have all arrived has been
\* extracted and delivered, in stream order, and the buffer holds exactly the
\* bytes of the item that is not complete yet.
C22_NoCompleteFrameLeft ==
    DeliveredBytes > 0 =>
        /\ decoded = MessagesFrom(SubSeq(stream, 1, ItemsDelivered), 1)
        /\ RawLength(buffer) = DeliveredBytes - BytesOfItems(ItemsDelivered)

(***************************************************************************)
(* Claims about the fallback scan of the open documents.                   *)
(***************************************************************************)

\* The nodes of a symbol tree in depth-first pre-order.
RECURSIVE PreOrder(_)
PreOrder(symbols) ==
    IF symbols = <<>> THEN <<>>
    ELSE <<Head(symbols)>> \o PreOrder(Head(symbols).children) \o PreOrder(Tail(symbols))

FirstNamed(symbols, name) ==
    LET nodes == PreOrder(symbols)
        hits == {i \in 1..Len(nodes) : nodes[i].name = name}
    IN  IF hits = {} THEN NotFoundSymbol
        ELSE [found |-> TRUE, symbol |-> nodes[CHOOSE i \in hits : \A j \in hits : i <= j]]

\* The findReferences handlers of a name.
Lookups ==
    {k \in DOMAIN handlers : handlers[k].method = "findReferences"
                             /\ handlers[k].param = List(NameF)}

\* C23: on every outline of the world findSymbolInTree returns the first
\* node in depth-first pre-order whose name is exactly the name, and null
\* exactly when there is none; and a location the pipe resolver took from an
\* outline is the start of that node in the document it was looking into,
\* while a location taken from the text means the outline had no such node.
C23_FirstInPreOrder ==
    /\ \A i \in 1..Len(world.docs) : \A name \in {NameF, NameUpperF, NameFb} :
          findSymbolInTree(world.docs[i].outline.items, name)
              = FirstNamed(world.docs[i].outline.items, name)
    /\ PipeRun =>
          \A k \in Lookups :
              LET h == handlers[k]
                  first == FirstNamed(world.docs[h.doc].outline.items, h.param.items)
              IN  /\ h.location.source = "outline" =>
                        /\ first.found
                        /\ h.location.uri = world.docs[h.doc].uri
                        /\ h.location.position = first.symbol.start
                  /\ h.location.source = "text" => ~first.found

\* The resolver took the nested declaration that precedes, in pre-order, a
\* top-level one of the same name.
C23_Witness ==
    /\ PipeRun
    /\ world.docs = <<DocOutlineDeepFirst>>
    /\ \E k \in Lookups :
          /\ handlers[k].location.source = "outline"
          /\ handlers[k].location.position = Pos(4, 2)
          /\ handlers[k].pc = "done"

DocumentAt(uri) == world.docs[CHOOSE i \in 1..Len(world.docs) : world.docs[i].uri = uri]

HoverCalls(h) == {i \in 1..Len(h.calls) : h.calls[i].cmd = "vscode.executeHoverProvider"}

FirstOccurrence(document, name) ==
    LET hits == MatchOffsets(document.text, name, 0)
    IN  positionAt(document.text, CHOOSE i \in hits : \A j \in hits : i <= j)

\* C24: in the later pipe variant a handler probes each document at most
\* once for hover data, at the first word-boundary occurrence of the name; a
\* location taken from the text is a probed position with hover data; and a
\* handler that has ended after a probe that had hover data returned that
\* position.
C24_OneHoverProbe ==
    variant = "pipe" =>
        \A k \in Lookups :
            LET h == handlers[k]
            IN  /\ \A i, j \in HoverCalls(h) : h.calls[i].uri = h.calls[j].uri => i = j
                /\ \A i \in HoverCalls(h) :
                      /\ MatchOffsets(DocumentAt(h.calls[i].uri).text, h.param.items, 0) # {}
                      /\ h.calls[i].position
                             = FirstOccurrence(DocumentAt(h.calls[i].uri), h.param.items)
                      /\ (h.pc = "done" /\ ~EngineFailed(h)
                          /\ h.calls[i].position \in DocumentAt(h.calls[i].uri).hoverAt) =>
                             /\ h.location.source = "text"
                             /\ h.location.uri = h.calls[i].uri
                             /\ h.location.position = h.calls[i].position
                /\ h.location.source = "text" =>
                      /\ h.location.position \in DocumentAt(h.location.uri).hoverAt
                      /\ \E i \in HoverCalls(h) :
                            h.calls[i] = HoverCall(h.location.uri, h.location.position)

\* A location taken from the text after one probe, in a document whose text
\* holds the name twice.
C24_Witness ==
    /\ variant = "pipe"
    /\ \E k \in Lookups :
          /\ handlers[k].pc = "done"
          /\ handlers[k].location.source = "text"
          /\ Cardinality(HoverCalls(handlers[k])) = 1
          /\ Cardinality(MatchOffsets(DocumentAt(handlers[k].location.uri).text,
                                      NameF, 0)) = 2

DocumentCalls(h) ==
    {i \in 1..Len(h.calls) : h.calls[i].cmd \in {"vscode.executeDocumentSymbolProvider",
                                                 "vscode.executeHoverProvider"}}

DocumentIndex(uri) == CHOOSE i \in 1..Len(world.docs) : world.docs[i].uri = uri

\* C25: in the later pipe variant the queries about documents go through
\* the open documents in list order, skip no file-backed document of the
\* workspace and touch no other document, ask for a document's outline
\* before its hover data; and a location found in the documents is in the
\* last document queried.
C25_ScanOrder ==
    variant = "pipe" =>
        \A k \in Lookups :
            LET h == handlers[k]
                visited == {DocumentIndex(h.calls[i].uri) : i \in DocumentCalls(h)}
            IN  /\ \A i \in DocumentCalls(h) :
                      /\ \E d \in 1..Len(world.docs) : world.docs[d].uri = h.calls[i].uri
                      /\ DocumentAt(h.calls[i].uri).scheme = "file"
                      /\ DocumentAt(h.calls[i].uri).inWorkspace
                /\ \A i, j \in DocumentCalls(h) :
                      i < j =>
                          \/ DocumentIndex(h.calls[i].uri) < DocumentIndex(h.calls[j].uri)
                          \/ /\ h.calls[i].uri = h.calls[j].uri
                             /\ h.calls[i].cmd = "vscode.executeDocumentSymbolProvider"
                             /\ h.calls[j].cmd = "vscode.executeHoverProvider"
                /\ \A i \in HoverCalls(h) :
                      \E j \in DocumentCalls(h) : j < i /\ h.calls[j].uri = h.calls[i].uri
                /\ \A d \in visited : \A e \in 1..(d - 1) :
                      (world.docs[e].scheme = "file" /\ world.docs[e].inWorkspace) =>
                          e \in visited
                /\ h.location.source \in {"outline", "text"} =>
                      /\ DocumentIndex(h.location.uri) \in visited
                      /\ \A d \in visited : d <= DocumentIndex(h.location.uri)

\* The first document confirmed a text occurrence by hover and was returned,
\* though the second, never queried, declares the name in its outline.
C25_Witness ==
    /\ variant = "pipe"
    /\ world.docs = <<DocTextHover, DocOutlineTop>>
    /\ \E k \in Lookups :
          /\ handlers[k].pc = "done"
          /\ handlers[k].location.source = "text"
          /\ handlers[k].location.uri = UriA
          /\ \A i \in DocumentCalls(handlers[k]) : handlers[k].calls[i].uri = UriA

====
